---- MODULE Spec2Model ----
(***************************************************************************)
(* Model of get_config_file.js (the two token-extractor console scripts)   *)
(* and of the interest-cleaner client the README documents.                *)
(*                                                                         *)
(* JavaScript strings are sequences of one-character strings, so that      *)
(* String.prototype.split and String.prototype.trim are computed as the    *)
(* engine computes them.  A JavaScript value is a record [t, s]: t is the  *)
(* type tag ("string" or "undefined"), s the characters of a string.       *)
(* The tokens object is the insertion-ordered list of its properties.      *)
(***************************************************************************)
EXTENDS Integers, Sequences, FiniteSets, TLC

\* ------------------------------------------------------------------ bounds
\* Most cookies in the browser's cookie store.
MaxCookies == 2
\* Most blanks the environment puts on either side of a cookie entry.
MaxPad == 1
\* Longest interest list an endpoint returns to the client.
MaxList == 2

\* --------------------------------------------------------- string literals
CT0 == <<"c", "t", "0">>
AUTH_TOKEN == <<"a", "u", "t", "h", "_", "t", "o", "k", "e", "n">>
BEARER_TOKEN_NAME == <<"b", "e", "a", "r", "e", "r", "_", "t", "o", "k", "e", "n">>

\* The web application's bearer token, the literal of both scripts.
BEARER ==
  << "A", "A", "A", "A", "A", "A", "A", "A", "A", "A", "A", "A", "A", "A", "A", "A", "A",
     "A", "A", "A", "A", "M", "L", "h", "e", "A", "A", "A", "A", "A", "A", "A", "0", "%",
     "2", "B", "u", "S", "e", "i", "d", "%", "2", "B", "U", "L", "v", "s", "e", "a", "4",
     "J", "t", "i", "G", "R", "i", "S", "D", "y", "J", "u", "g", "%", "3", "D" >>

\* ------------------------------------------------------- JavaScript values
Str(s) == [t |-> "string", s |-> s]
Undefined == [t |-> "undefined", s |-> <<>>]

\* !v for the values the scripts test: undefined and "" are falsy.
FalsyUndefinedOnly(v) == v.t = "undefined"
Falsy(v) == v.t = "undefined" \/ v.s = <<>>

\* ------------------------------------------------- String.prototype.trim
RECURSIVE TrimStart(_)
TrimStart(s) ==
  IF s # <<>> /\ Head(s) = " " THEN TrimStart(Tail(s)) ELSE s

RECURSIVE TrimEnd(_)
TrimEnd(s) ==
  IF s # <<>> /\ s[Len(s)] = " " THEN TrimEnd(SubSeq(s, 1, Len(s) - 1)) ELSE s

Trim(s) == TrimEnd(TrimStart(s))

\* ------------------------------------------------ String.prototype.split
\* Index of the first sep in s, 0 when there is none.
IndexOf(s, sep) ==
  IF \E i \in 1..Len(s) : s[i] = sep
  THEN CHOOSE i \in 1..Len(s) : s[i] = sep /\ \A j \in 1..(i - 1) : s[j] # sep
  ELSE 0

\* s.split(sep) for a one-character separator: every piece between
\* separators, empty pieces kept; "".split(sep) is [""].
RECURSIVE Split(_, _)
Split(s, sep) ==
  LET i == IndexOf(s, sep)
  IN  IF i = 0 THEN <<s>>
      ELSE <<SubSeq(s, 1, i - 1)>> \o Split(SubSeq(s, i + 1, Len(s)), sep)

\* const [name, value] = cookie.trim().split("="): the first two pieces,
\* value undefined when there is one piece only.
CookieName(cookie) == Split(Trim(cookie), "=")[1]
CookieValue(cookie) ==
  LET parts == Split(Trim(cookie), "=")
  IN  IF Len(parts) >= 2 THEN Str(parts[2]) ELSE Undefined

\* ------------------------------------------------------- the tokens object
HasKey(obj, k) == \E i \in 1..Len(obj) : obj[i].key = k
Get(obj, k) ==
  IF HasKey(obj, k) THEN obj[CHOOSE i \in 1..Len(obj) : obj[i].key = k].val
  ELSE Undefined
\* obj[k] = v: an existing property keeps its place, a new one goes last.
Put(obj, k, v) ==
  IF HasKey(obj, k)
  THEN [i \in 1..Len(obj) |-> IF obj[i].key = k THEN [key |-> k, val |-> v] ELSE obj[i]]
  ELSE Append(obj, [key |-> k, val |-> v])

\* JSON.stringify(tokens, null, 2), as the list of members of the object it
\* writes: properties in insertion order, those holding undefined left out.
JSONstringify(obj) ==
  LET kept == SelectSeq(obj, LAMBDA m : m.val.t # "undefined")
  IN  [i \in 1..Len(kept) |-> [key |-> kept[i].key, str |-> kept[i].val.s]]

\* --------------------------------------------------------- the two scripts
Variants == {"strict", "tolerant"}

\* The first script's loop has the auth_token branch, the second has none.
HandlesAuthAlways(v) == TRUE
HandlesAuth(v) == v = "strict"

\* The first script returns early without auth_token, the second does not.
RequiresAuth(v) == v = "strict"

\* tokens.bearer_token = "<literal>"
SetBearerFromCt0(obj) == Put(obj, "bearer_token", Get(obj, "ct0"))
SetBearer(obj) == Put(obj, "bearer_token", Str(BEARER))

\* if (!tokens.ct0) -> error and return
Ct0MissingChecksBearer(obj) == Falsy(Get(obj, "bearer_token"))
Ct0Missing(obj) == Falsy(Get(obj, "ct0"))

\* ------------------------------------------------- the browser environment
\* The cookie store: a list of entries, each a name and, when the entry has
\* an "=", the value after the first "=".
CookieNames == {CT0, AUTH_TOKEN, BEARER_TOKEN_NAME}
CookieValues ==
  { <<>>, <<"a">>, <<"b">>, <<"a", "=", "b">>, <<"=", "b">> }
Entries ==
  [name : CookieNames, hasEq : {TRUE}, value : CookieValues]
    \cup [name : CookieNames, hasEq : {FALSE}, value : {<<>>}]
Jars == UNION { [1..n -> Entries] : n \in 0..MaxCookies }

Blanks(n) == [i \in 1..n |-> " "]
EntryText(e, n) ==
  Blanks(n) \o e.name \o (IF e.hasEq THEN <<"=">> \o e.value ELSE <<>>) \o Blanks(n)

\* document.cookie: the entries joined by ";", n blanks around each.
RECURSIVE DocumentCookie(_, _)
DocumentCookie(j, n) ==
  IF j = <<>> THEN <<>>
  ELSE IF Len(j) = 1 THEN EntryText(j[1], n)
  ELSE EntryText(j[1], n) \o <<";">> \o DocumentCookie(Tail(j), n)

\* ---------------------------------------------------- the documented client
Interests == {"i1", "i2"}
InterestLists == UNION { [1..n -> Interests] : n \in 0..MaxList }
FetchOutcomes == {"ok", "auth_failure", "rate_limited"}

\* The union of the two fetched lists, duplicates removed.
UnionOfInterests(a, b) == {a[i] : i \in 1..Len(a)} \cup {b[i] : i \in 1..Len(b)}

\* Dry-run reports the union instead of submitting it.
ShouldDisableAlways(dry) == TRUE
ShouldDisable(dry) == ~dry

\* ------------------------------------------------------------------- state
VARIABLES
  variant,      \* which of the two scripts runs
  jar, pad,     \* the cookie store and the blanks around its entries
  pc,           \* the script's position
  cookies,      \* document.cookie.split(";")
  idx,          \* forEach's position in cookies
  tokens,       \* the tokens object
  foundTokens,  \* the counter the success message prints
  config,       \* JSON.stringify(tokens, null, 2)
  downloads,    \* files the page has saved: a.click() on a download link
  clip,         \* the clipboard write: not reached, skipped, pending, settled, thrown
  clipboardText,\* texts the clipboard has received
  errors,       \* console.error diagnostics, one tag per group
  notices,      \* console.log lines of the promise callbacks
  cpc,          \* the client's position
  dryRun,       \* --dry-run
  current, disabled, merged,  \* the two fetched lists and their union
  requests,     \* requests the client has issued
  report,       \* what the client reported it would disable
  clientErrors  \* the client's diagnostics

extractorVars ==
  <<variant, jar, pad, pc, cookies, idx, tokens, foundTokens, config,
    downloads, clip, clipboardText, errors, notices>>
clientVars ==
  <<cpc, dryRun, current, disabled, merged, requests, report, clientErrors>>
vars == <<extractorVars, clientVars>>

ExtractorIdle ==
  /\ cookies = <<>> /\ idx = 1 /\ tokens = <<>> /\ foundTokens = 0
  /\ config = <<>> /\ downloads = <<>> /\ clip = "notcalled"
  /\ clipboardText = <<>> /\ errors = <<>> /\ notices = <<>>

ClientIdle ==
  /\ current = <<>> /\ disabled = <<>> /\ merged = {}
  /\ requests = <<>> /\ report = <<>> /\ clientErrors = <<>>

\* One of the scripts is pasted into the console of a page with some cookies.
Init ==
  /\ variant \in Variants
  /\ jar \in Jars
  /\ pad \in 0..MaxPad
  /\ pc = "start"
  /\ ExtractorIdle
  /\ cpc = "off" /\ dryRun = FALSE /\ ClientIdle

\* -------------------------------------------------------- extractor steps
\* const tokens = {}; let foundTokens = 0; const cookies = document.cookie.split(";")
ReadCookies ==
  /\ pc = "start"
  /\ cookies' = Split(DocumentCookie(jar, pad), ";")
  /\ tokens' = <<>> /\ foundTokens' = 0 /\ idx' = 1
  /\ pc' = "loop"
  /\ UNCHANGED <<variant, jar, pad, config, downloads, clip, clipboardText,
                 errors, notices, clientVars>>

\* One call of the forEach callback.  value.substring(...) in the log line
\* throws a TypeError when value is undefined, after the assignments.
ForEachCookie ==
  /\ pc = "loop"
  /\ LET name == CookieName(cookies[idx])
         value == CookieValue(cookies[idx])
         handled == name = CT0 \/ (HandlesAuth(variant) /\ name = AUTH_TOKEN)
     IN  /\ tokens' =
              IF name = CT0
              THEN Put(Put(tokens, "ct0", value), "csrf_token", value)
              ELSE IF HandlesAuth(variant) /\ name = AUTH_TOKEN
              THEN Put(tokens, "auth_token", value)
              ELSE tokens
         /\ foundTokens' =
              IF name = CT0 THEN foundTokens + 2
              ELSE IF HandlesAuth(variant) /\ name = AUTH_TOKEN THEN foundTokens + 1
              ELSE foundTokens
         /\ IF handled /\ value.t = "undefined"
            THEN pc' = "catch" /\ idx' = idx
            ELSE /\ idx' = idx + 1
                 /\ pc' = IF idx = Len(cookies) THEN "bearer" ELSE "loop"
  /\ UNCHANGED <<variant, jar, pad, cookies, config, downloads, clip,
                 clipboardText, errors, notices, clientVars>>

\* tokens.bearer_token = "<literal>"; foundTokens++
SetBearerToken ==
  /\ pc = "bearer"
  /\ tokens' = SetBearer(tokens)
  /\ foundTokens' = foundTokens + 1
  /\ pc' = "validate"
  /\ UNCHANGED <<variant, jar, pad, cookies, idx, config, downloads, clip,
                 clipboardText, errors, notices, clientVars>>

\* The early returns: no ct0, and in the first script no auth_token.
Validate ==
  /\ pc = "validate"
  /\ IF Ct0Missing(tokens)
     THEN errors' = Append(errors, "no_ct0") /\ pc' = "done"
     ELSE IF RequiresAuth(variant) /\ Falsy(Get(tokens, "auth_token"))
     THEN errors' = Append(errors, "no_auth_token") /\ pc' = "done"
     ELSE errors' = errors /\ pc' = "serialize"
  /\ UNCHANGED <<variant, jar, pad, cookies, idx, tokens, foundTokens, config,
                 downloads, clip, clipboardText, notices, clientVars>>

\* const config = JSON.stringify(tokens, null, 2)
Serialize ==
  /\ pc = "serialize"
  /\ config' = JSONstringify(tokens)
  /\ pc' = "download"
  /\ UNCHANGED <<variant, jar, pad, cookies, idx, tokens, foundTokens,
                 downloads, clip, clipboardText, errors, notices, clientVars>>

\* The Blob, the hidden link with download = "config.json", a.click().
Download ==
  /\ pc = "download"
  /\ downloads' = Append(downloads, [name |-> "config.json", content |-> config])
  /\ pc' = "clipboard"
  /\ UNCHANGED <<variant, jar, pad, cookies, idx, tokens, foundTokens, config,
                 clip, clipboardText, errors, notices, clientVars>>

\* if (navigator.clipboard && navigator.clipboard.writeText)
\*   navigator.clipboard.writeText(config).then(...).catch(...)
\* The environment decides: no clipboard API, a promise returned, or the
\* call itself throwing inside the try block.
ClipboardWrite ==
  /\ pc = "clipboard"
  /\ \/ clip' = "unavailable" /\ pc' = "done"
     \/ clip' = "pending" /\ pc' = "done"
     \/ clip' = "threw" /\ pc' = "catch"
  /\ UNCHANGED <<variant, jar, pad, cookies, idx, tokens, foundTokens, config,
                 downloads, clipboardText, errors, notices, clientVars>>

\* The promise resolves: the clipboard holds the text, .then logs.
ClipboardResolve ==
  /\ clip = "pending" /\ pc = "done"
  /\ clip' = "resolved"
  /\ clipboardText' = Append(clipboardText, config)
  /\ notices' = Append(notices, "copied")
  /\ UNCHANGED <<variant, jar, pad, pc, cookies, idx, tokens, foundTokens,
                 config, downloads, errors, clientVars>>

\* The promise rejects: .catch logs that the copy failed.
ClipboardReject ==
  /\ clip = "pending" /\ pc = "done"
  /\ clip' = "rejected"
  /\ notices' = Append(notices, "copy_failed")
  /\ UNCHANGED <<variant, jar, pad, pc, cookies, idx, tokens, foundTokens,
                 config, downloads, clipboardText, errors, clientVars>>

\* catch (error) { console.error("Error extracting tokens:", error); ... }
Catch ==
  /\ pc = "catch"
  /\ errors' = Append(errors, "error_extracting_tokens")
  /\ pc' = "done"
  /\ UNCHANGED <<variant, jar, pad, cookies, idx, tokens, foundTokens, config,
                 downloads, clip, clipboardText, notices, clientVars>>

Next ==
  \/ ReadCookies
  \/ ForEachCookie
  \/ SetBearerToken
  \/ Validate
  \/ Serialize
  \/ Download
  \/ ClipboardWrite
  \/ ClipboardResolve
  \/ ClipboardReject
  \/ Catch

Spec == Init /\ [][Next]_vars

\* ------------------------------------------------------------ client steps
\* The client is started with a credential bundle, with or without --dry-run.
ClientInit ==
  /\ variant = "tolerant" /\ jar = <<>> /\ pad = 0 /\ pc = "off"
  /\ ExtractorIdle
  /\ cpc = "fetch_current"
  /\ dryRun \in BOOLEAN
  /\ ClientIdle

\* Fetch the current interests; a rejected request ends the run.
FetchCurrent ==
  /\ cpc = "fetch_current"
  /\ requests' = Append(requests, "GET_current")
  /\ \E outcome \in FetchOutcomes :
       IF outcome = "ok"
       THEN \E l \in InterestLists :
              current' = l /\ cpc' = "fetch_disabled" /\ clientErrors' = clientErrors
       ELSE current' = current /\ cpc' = "done"
            /\ clientErrors' = Append(clientErrors, outcome)
  /\ UNCHANGED <<extractorVars, dryRun, disabled, merged, report>>

\* Fetch the previously disabled interests.
FetchDisabled ==
  /\ cpc = "fetch_disabled"
  /\ requests' = Append(requests, "GET_disabled")
  /\ \E outcome \in FetchOutcomes :
       IF outcome = "ok"
       THEN \E l \in InterestLists :
              disabled' = l /\ cpc' = "union" /\ clientErrors' = clientErrors
       ELSE disabled' = disabled /\ cpc' = "done"
            /\ clientErrors' = Append(clientErrors, outcome)
  /\ UNCHANGED <<extractorVars, dryRun, current, merged, report>>

\* Combine both lists and remove duplicates.
CombineInterests ==
  /\ cpc = "union"
  /\ merged' = UnionOfInterests(current, disabled)
  /\ cpc' = "submit"
  /\ UNCHANGED <<extractorVars, dryRun, current, disabled, requests, report,
                 clientErrors>>

\* Disable the union in one request, or with --dry-run only report it.
SubmitOrReport ==
  /\ cpc = "submit"
  /\ IF ShouldDisable(dryRun)
     THEN requests' = Append(requests, "POST_disable") /\ report' = report
     ELSE requests' = requests /\ report' = Append(report, merged)
  /\ cpc' = "done"
  /\ UNCHANGED <<extractorVars, dryRun, current, disabled, merged, clientErrors>>

ClientNext ==
  \/ FetchCurrent
  \/ FetchDisabled
  \/ CombineInterests
  \/ SubmitOrReport

ClientSpec == ClientInit /\ [][ClientNext]_vars

\* ---------------------------------------------- vocabulary of the properties
Ct0Entries == {i \in DOMAIN jar : jar[i].name = CT0}
AuthEntries == {i \in DOMAIN jar : jar[i].name = AUTH_TOKEN}

\* The store holds exactly one entry of that name, written name=v with v
\* not empty.
OneNonEmpty(S) ==
  /\ Cardinality(S) = 1
  /\ \A i \in S : jar[i].hasEq /\ jar[i].value # <<>>
TheValue(S) == jar[CHOOSE i \in S : TRUE].value

Emitted == downloads # <<>>
Bundle == downloads[1].content
Keys(b) == {b[i].key : i \in 1..Len(b)}
KeyList(b) == [i \in 1..Len(b) |-> b[i].key]
Member(b, k) == b[CHOOSE i \in 1..Len(b) : b[i].key = k].str
IsPrefix(p, s) == Len(p) <= Len(s) /\ SubSeq(s, 1, Len(p)) = p

\* Every text that left the script: the saved files and the clipboard texts.
Outputs ==
  {downloads[i].content : i \in 1..Len(downloads)}
    \cup {clipboardText[i] : i \in 1..Len(clipboardText)}

\* -------------------------------------------------------------- properties
\* C1: when the cookie store holds one entry ct0=v, the emitted bundle has
\* csrf_token = ct0 = v, v being everything after the first "=".
C1_Ct0IsWholeValue ==
  (Emitted /\ Cardinality(Ct0Entries) = 1) =>
    /\ {"ct0", "csrf_token"} \subseteq Keys(Bundle)
    /\ Member(Bundle, "ct0") = TheValue(Ct0Entries)
    /\ Member(Bundle, "csrf_token") = TheValue(Ct0Entries)

\* C2: with no cookie named ct0 the run never reaches the file save or the
\* clipboard, and it ends with an error reported.
C2_NoCt0NoFile ==
  Ct0Entries = {} =>
    /\ ~Emitted
    /\ clip = "notcalled" /\ clipboardText = <<>>
    /\ pc \notin {"serialize", "download", "clipboard"}
    /\ (pc = "done" => errors # <<>>)

C2_Witness ==
  /\ pc = "done" /\ Ct0Entries = {} /\ AuthEntries # {}
  /\ errors = <<"no_ct0">> /\ ~Emitted

\* C3: with a non-empty ct0 cookie and no auth_token cookie the strict
\* script ends in an error with no file, and the tolerant script emits a
\* bundle without an auth_token key.
C3_StrictFailsTolerantSucceeds ==
  (pc = "done" /\ OneNonEmpty(Ct0Entries) /\ AuthEntries = {}) =>
    IF variant = "strict"
    THEN errors # <<>> /\ ~Emitted
    ELSE Emitted /\ "auth_token" \notin Keys(Bundle)

\* C4: every emitted bundle has bearer_token equal to the literal, whatever
\* the cookies are.
C4_BearerIsConstant ==
  \A b \in Outputs :
    /\ Cardinality({i \in 1..Len(b) : b[i].key = "bearer_token"}) = 1
    /\ Member(b, "bearer_token") = BEARER

C4_Witness ==
  /\ Emitted
  /\ \E i \in DOMAIN jar :
       jar[i].name = BEARER_TOKEN_NAME /\ jar[i].hasEq /\ jar[i].value = <<"a">>
  /\ Member(Bundle, "bearer_token") = BEARER

\* C5: with one non-empty ct0=v and one non-empty auth_token=w the strict
\* script emits a bundle whose keys are exactly ct0, csrf_token, auth_token
\* and bearer_token, with ct0 = csrf_token = v and auth_token = w.
C5_StrictBundle ==
  (variant = "strict" /\ pc = "done"
     /\ OneNonEmpty(Ct0Entries) /\ OneNonEmpty(AuthEntries)) =>
    /\ Emitted
    /\ Keys(Bundle) = {"ct0", "csrf_token", "auth_token", "bearer_token"}
    /\ Len(Bundle) = 4
    /\ Member(Bundle, "ct0") = TheValue(Ct0Entries)
    /\ Member(Bundle, "csrf_token") = TheValue(Ct0Entries)
    /\ Member(Bundle, "auth_token") = TheValue(AuthEntries)
    /\ Member(Bundle, "bearer_token") = BEARER

\* C6: the file is saved before the clipboard write starts, and whatever the
\* clipboard does the file stays saved once with the serialized text and the
\* run is not reported as a failed extraction; a failed copy is a notice.
C6_ClipboardNeverAffectsOutcome ==
  clip # "notcalled" =>
    /\ Len(downloads) = 1 /\ Bundle = config
    /\ errors = <<>>
    /\ (clip \in {"rejected", "threw"} /\ pc = "done" => notices = <<"copy_failed">>)

\* C7: a dry run issues the two fetches and no other request, and when both
\* succeed it reports the union of the two lists.
C7_DryRunNeverMutates ==
  dryRun =>
    /\ \A i \in 1..Len(requests) : requests[i] \in {"GET_current", "GET_disabled"}
    /\ (cpc = "done" /\ clientErrors = <<>> =>
          /\ requests = <<"GET_current", "GET_disabled">>
          /\ report = <<UnionOfInterests(current, disabled)>>)

C7_Witness ==
  /\ dryRun /\ cpc = "done" /\ clientErrors = <<>>
  /\ Len(current) = 2 /\ Len(disabled) = 2
  /\ report = <<{"i1", "i2"}>>

\* C8: every emitted bundle has csrf_token equal to ct0 and ct0 not empty.
C8_CsrfEqualsCt0NonEmpty ==
  \A b \in Outputs :
    /\ {"ct0", "csrf_token"} \subseteq Keys(b)
    /\ Member(b, "csrf_token") = Member(b, "ct0")
    /\ Member(b, "ct0") # <<>>

C8_Witness ==
  /\ Emitted /\ Len(jar) = 2
  /\ jar[1] = [name |-> CT0, hasEq |-> TRUE, value |-> <<>>]
  /\ jar[2] = [name |-> CT0, hasEq |-> TRUE, value |-> <<"b">>]
  /\ Member(Bundle, "ct0") = <<"b">>

\* C9: a finished run has either saved config.json once and reported no
\* error, or reported an error and saved nothing.
C9_ExactlyOneOutcome ==
  /\ Len(downloads) <= 1
  /\ pc = "done" =>
       \/ Len(downloads) = 1 /\ errors = <<>>
       \/ downloads = <<>> /\ errors # <<>>

\* C10: what the tolerant script emits has the keys ct0, csrf_token and
\* bearer_token only, and every value in it is the bearer literal or the
\* start of a ct0 cookie's value: nothing of an auth_token cookie.
C10_TolerantOmitsAuthToken ==
  variant = "tolerant" =>
    /\ ~HasKey(tokens, "auth_token")
    /\ \A b \in Outputs :
         /\ KeyList(b) = <<"ct0", "csrf_token", "bearer_token">>
         /\ \A i \in 1..Len(b) :
              \/ b[i].key = "bearer_token" /\ b[i].str = BEARER
              \/ b[i].key # "bearer_token"
                   /\ \E c \in Ct0Entries : IsPrefix(b[i].str, jar[c].value)

C10_Witness ==
  /\ variant = "tolerant" /\ clip = "resolved"
  /\ \E i \in AuthEntries : jar[i].hasEq /\ jar[i].value = <<"b">>
  /\ \E i \in Ct0Entries : jar[i].value = <<"a">>
  /\ Member(Bundle, "ct0") = <<"a">>
  /\ clipboardText = <<Bundle>>

====
